---- MODULE Spec2Model ----
(***************************************************************************)
(* Model of InvestmentEngine.run_projection (src/finance_tracker.py).      *)
(*                                                                         *)
(* Numbers.  The program computes in binary floating point.  The model     *)
(* computes in fixed point: every money amount is an integer number of     *)
(* mills (1/1000 of a currency unit, a tenth of a cent), every rate an     *)
(* integer number of basis points (1/10000).  A product amount * rate is   *)
(* truncated to a whole mill (MulDiv).  round(x, 2) becomes Round2, the    *)
(* nearest multiple of 10 mills, ties to the even cent.  The 0.01 epsilon  *)
(* of the payoff test is 10 mills.                                         *)
(*                                                                         *)
(* Left out: the RealNetWorth column (a fractional power of 1+inflation),  *)
(* the pandas DataFrame wrapper around the snapshot list, creditor names   *)
(* (a payoff event names its creditor by its position in the ledger).      *)
(***************************************************************************)
EXTENDS Integers, Sequences, FiniteSets, TLC

VARIABLES
    p,              \* self.p, the profile dict
    debts,          \* the caller's creditor list (argument of run_projection)
    years,          \* the horizon argument
    current_debts,  \* working copy of the ledger
    income,
    expenses,
    emergency_fund,
    investment,
    e_target,
    payoffs,        \* payoff-event list
    total_interest,
    total_taxes,
    data,           \* snapshot list
    month,          \* loop variable
    surplus,
    active_debts,   \* list of references into current_debts (ledger positions)
    total_debt,
    phase,
    rem_surplus,
    idx,            \* position of the running for-loop inside active_debts
    pc,             \* position inside run_projection
    month_interest  \* history: sum of the local `interest` over the loop of
                    \* lines 187-190 in the current month (read by no action)

vars == <<p, debts, years, current_debts, income, expenses, emergency_fund,
          investment, e_target, payoffs, total_interest, total_taxes, data,
          month, surplus, active_debts, total_debt, phase, rem_surplus, idx, pc,
          month_interest>>

----------------------------------------------------------------------------
(* Bounds of the explored inputs *)

MaxCreditors == 2
MaxYears == 1

(* Units *)
BP == 10000           \* basis points per 1.0
MonthsPerYear == 12
Epsilon == 10         \* 0.01 currency units, in mills
None == -1            \* payoff_month not set

(* Input values the runs are drawn from (mills, basis points) *)
IncomeValues == {3000, 1020}
ExpenseValues == {1004}
EmergencyMonthsValues == {0, 2}
\* <<inflation, annual_raise>>: none; prices only (a surplus of 16 mills turns
\* negative in month 12); both
EscalationValues == { <<0, 0>>, <<300, 0>>, <<300, 200>> }
StrategyValues == {"Avalanche", "Snowball", "Other"}

Creditor(b, r, m) ==
    [balance |-> b, interest_rate |-> r, min_payment |-> m, payoff_month |-> None]

CreditorPool ==
    { Creditor(4000, 2400, 300),     \* large balance, high rate
      Creditor(600, 1200, 100),      \* small balance, lower rate
      Creditor(305, 0, 300),         \* within epsilon of zero after one minimum payment
      Creditor(0, 1200, 100) }       \* nothing owed

RECURSIVE SeqsUpTo(_, _)
SeqsUpTo(S, n) ==
    IF n = 0 THEN { <<>> }
    ELSE LET shorter == SeqsUpTo(S, n - 1)
         IN shorter \cup { Append(s, x) : s \in shorter, x \in S }

----------------------------------------------------------------------------
(* Arithmetic *)

Min(a, b) == IF a <= b THEN a ELSE b

\* floor(a * b / c) for a >= 0, b >= 0, c > 0, without leaving 32 bits
MulDiv(a, b, c) == (a \div c) * b + ((a % c) * b) \div c

\* n / d rounded to the nearest integer, ties to even (n >= 0, d > 0)
RoundDiv(n, d) ==
    LET q == n \div d
        r == n % d
    IN IF 2 * r < d THEN q
       ELSE IF 2 * r > d THEN q + 1
       ELSE IF q % 2 = 0 THEN q ELSE q + 1

\* round(x, 2): to the nearest cent, result in mills
Round2(x) == IF x >= 0 THEN 10 * RoundDiv(x, 10) ELSE -(10 * RoundDiv(-x, 10))

RECURSIVE SumBalances(_, _)
SumBalances(cd, s) ==
    IF s = <<>> THEN 0 ELSE cd[Head(s)].balance + SumBalances(cd, Tail(s))

----------------------------------------------------------------------------
(* Pieces of run_projection *)

\* mutant of ActiveDebts: balance >= 0
ActiveDebtsNonStrict(cd) ==
    SelectSeq([i \in 1..Len(cd) |-> i], LAMBDA i : cd[i].balance >= 0)

\* [d for d in current_debts if d.balance > 0], as ledger positions
ActiveDebts(cd) ==
    SelectSeq([i \in 1..Len(cd) |-> i], LAMBDA i : cd[i].balance > 0)

\* x *= (1 + rate)
Escalate(x, rate) == x + MulDiv(x, rate, BP)

EscalationMonth(m) == m > 0 /\ m % MonthsPerYear = 0

\* mutants of Classify: a fund equal to its target still Emergency; zero debt
\* still Debt; the fund tested before the debt
ClassifyNonStrict(td, ef, target) ==
    IF td > 0 THEN "DEBT"
    ELSE IF ef <= target THEN "EMERGENCY"
    ELSE "INVESTING"

ClassifyDebtNonStrict(td, ef, target) ==
    IF td >= 0 THEN "DEBT"
    ELSE IF ef < target THEN "EMERGENCY"
    ELSE "INVESTING"

ClassifyEmergencyFirst(td, ef, target) ==
    IF ef < target THEN "EMERGENCY"
    ELSE IF td > 0 THEN "DEBT"
    ELSE "INVESTING"

\* lines 165-170
Classify(td, ef, target) ==
    IF td > 0 THEN "DEBT"
    ELSE IF ef < target THEN "EMERGENCY"
    ELSE "INVESTING"

\* mutants of ShouldAllocate: the surplus test dropped; the month test dropped
AllocateAnySurplus(m, sur) == m > 0
AllocateMonthZero(m, sur) == sur > 0

\* if month > 0 and surplus > 0
ShouldAllocate(m, sur) == m > 0 /\ sur > 0

\* mutant of InRange: range(0, years * 12)
InRangeExclusive(m, y) == m < y * MonthsPerYear

\* month in range(0, (years * 12) + 1)
InRange(m, y) == m <= y * MonthsPerYear

WeightedYield(prof) ==
    (prof.stock_ratio * prof.stock_yield
        + (BP - prof.stock_ratio) * prof.bond_yield) \div BP

\* mutant of Snapshot: the debt left out of the net worth
SnapshotNoDebt(m, inc, exp, td, ph) ==
    [Month |-> m,
     Year |-> RoundDiv(m * 100, MonthsPerYear),
     NetWorth |-> Round2(investment + emergency_fund),
     Phase |-> ph,
     Income |-> Round2(inc),
     Expenses |-> Round2(exp),
     TotalDebt |-> Round2(td),
     EmergencyFund |-> Round2(emergency_fund),
     Investment |-> Round2(investment),
     InterestPaid |-> Round2(total_interest),
     TaxesPaid |-> Round2(total_taxes)]

\* the dict appended at lines 175-182
Snapshot(m, inc, exp, td, ph) ==
    [Month |-> m,
     Year |-> RoundDiv(m * 100, MonthsPerYear),
     NetWorth |-> Round2(investment + emergency_fund - td),
     Phase |-> ph,
     Income |-> Round2(inc),
     Expenses |-> Round2(exp),
     TotalDebt |-> Round2(td),
     EmergencyFund |-> Round2(emergency_fund),
     Investment |-> Round2(investment),
     InterestPaid |-> Round2(total_interest),
     TaxesPaid |-> Round2(total_taxes)]

PayoffEvent(i, m) ==
    [name |-> i, month |-> m, year |-> RoundDiv(m * 10, MonthsPerYear)]

\* mutant of Interest: the annual rate charged every month
InterestAnnual(d) == MulDiv(d.balance, d.interest_rate, BP)

\* interest = d.balance * (d.interest_rate / 12)
Interest(d) == MulDiv(d.balance, d.interest_rate, MonthsPerYear * BP)

RECURSIVE SumInterest(_, _)
SumInterest(cd, s) ==
    IF s = <<>> THEN 0 ELSE Interest(cd[Head(s)]) + SumInterest(cd, Tail(s))

\* mutant of MinPaymentAmount: not capped by the remaining surplus
MinPaymentUncapped(d, rem) == Min(d.min_payment, d.balance)

\* payment = min(d.min_payment, d.balance, rem_surplus)
MinPaymentAmount(d, rem) == Min(Min(d.min_payment, d.balance), rem)

\* mutant of ExtraPaymentAmount: the extra payment capped by the minimum payment
ExtraPaymentMinOnly(d, rem) == Min(rem, Min(d.balance, d.min_payment))

\* p = min(rem_surplus, d.balance)
ExtraPaymentAmount(d, rem) == Min(rem, d.balance)

\* d.balance <= 0.01 and d.payoff_month is None
Cleared(bal, pm) == bal <= Epsilon /\ pm = None

\* mutant of Pay: payoff_month set, the residue within epsilon left on the balance
PayKeepResidue(d, payment, m) ==
    LET bal == d.balance - payment
    IN IF Cleared(bal, d.payoff_month)
       THEN [d EXCEPT !.balance = bal, !.payoff_month = m]
       ELSE [d EXCEPT !.balance = bal]

\* d.balance -= payment, then the payoff test
Pay(d, payment, m) ==
    LET bal == d.balance - payment
    IN IF Cleared(bal, d.payoff_month)
       THEN [d EXCEPT !.balance = 0, !.payoff_month = m]
       ELSE [d EXCEPT !.balance = bal]

\* mutant of AvalancheBefore: reverse=True forgotten
AvalancheBeforeAscending(cd, s, j, k) ==
    \/ cd[s[j]].interest_rate < cd[s[k]].interest_rate
    \/ cd[s[j]].interest_rate = cd[s[k]].interest_rate /\ j < k

\* list.sort is stable, and stays stable under reverse=True
AvalancheBefore(cd, s, j, k) ==
    \/ cd[s[j]].interest_rate > cd[s[k]].interest_rate
    \/ cd[s[j]].interest_rate = cd[s[k]].interest_rate /\ j < k

\* mutant of SnowballBefore: largest balance first
SnowballBeforeDescending(cd, s, j, k) ==
    \/ cd[s[j]].balance > cd[s[k]].balance
    \/ cd[s[j]].balance = cd[s[k]].balance /\ j < k

SnowballBefore(cd, s, j, k) ==
    \/ cd[s[j]].balance < cd[s[k]].balance
    \/ cd[s[j]].balance = cd[s[k]].balance /\ j < k

SortAvalanche(cd, s) ==
    LET rank(k) == 1 + Cardinality({ j \in 1..Len(s) : AvalancheBefore(cd, s, j, k) })
    IN [r \in 1..Len(s) |-> s[CHOOSE k \in 1..Len(s) : rank(k) = r]]

SortSnowball(cd, s) ==
    LET rank(k) == 1 + Cardinality({ j \in 1..Len(s) : SnowballBefore(cd, s, j, k) })
    IN [r \in 1..Len(s) |-> s[CHOOSE k \in 1..Len(s) : rank(k) = r]]

\* mutant of StrategySort: an unrecognized strategy leaves the list unsorted
StrategySortKnownOnly(strategy, cd, s) ==
    IF strategy = "Avalanche" THEN SortAvalanche(cd, s)
    ELSE IF strategy = "Snowball" THEN SortSnowball(cd, s)
    ELSE s

\* lines 205-208
StrategySort(strategy, cd, s) ==
    IF strategy = "Avalanche" THEN SortAvalanche(cd, s) ELSE SortSnowball(cd, s)

\* mutant of Contribution: the whole remaining surplus goes to the fund
ContributionWholeSurplus(rem, target, ef) == rem

\* min(rem_surplus, e_target - emergency_fund)
Contribution(rem, target, ef) == Min(rem, target - ef)

----------------------------------------------------------------------------
(* State machine *)

Profile(inc, exp, em, infl, raise, strat) ==
    [income |-> inc, expenses |-> exp, emergency_months |-> em,
     stock_yield |-> 1000, bond_yield |-> 400, stock_ratio |-> 8000,
     inflation |-> infl, tax_rate |-> 1500, annual_raise |-> raise,
     strategy |-> strat]

Profiles ==
    { Profile(inc, exp, em, esc[1], esc[2], strat) :
        inc \in IncomeValues, exp \in ExpenseValues, em \in EmergencyMonthsValues,
        esc \in EscalationValues, strat \in StrategyValues }

\* nothing spent: the emergency target is 0 whatever emergency_months is
ZeroExpenseProfiles ==
    { Profile(3000, 0, em, 0, 0, "Avalanche") : em \in EmergencyMonthsValues }

Ledgers == SeqsUpTo(CreditorPool, MaxCreditors)

\* income 5000, expenses 3000, one creditor {10000, 20%, 300}, Avalanche,
\* emergency_months 3, inflation 3%, raise 2%
WorkedProfile == Profile(5000000, 3000000, 3, 300, 200, "Avalanche")
WorkedLedger == << Creditor(10000000, 2000, 300000) >>

Inputs ==
    ((Profiles \cup ZeroExpenseProfiles) \X Ledgers)
        \cup { <<WorkedProfile, WorkedLedger>> }

\* inputs with a negative income, expense, balance or rate among them
UncheckedInputs ==
    { Profile(inc, exp, 2, 0, 0, "Avalanche") :
        inc \in {3000, -3000}, exp \in {1004, -1004} }
    \X SeqsUpTo(CreditorPool \cup { Creditor(-500, 1200, 100),
                                    Creditor(600, -1200, 100) }, MaxCreditors)

\* mutant of WorkingCopyShared: current_debts = debts, the caller's own records
WorkingListAliased == TRUE

\* line 145 builds a new Creditor for every record of the caller's list:
\* the working ledger shares no record with it
WorkingCopyShared == FALSE

\* the caller's records after the working ledger has become cd
CallerSees(ds, cd) == IF WorkingCopyShared THEN cd ELSE ds

\* InvestmentEngine(prof).run_projection(ds, ...), up to the loop
Start(prof, ds) ==
    /\ p = prof
    /\ debts = ds
    /\ years \in 0..MaxYears
    /\ current_debts = [i \in 1..Len(debts) |->
            Creditor(debts[i].balance, debts[i].interest_rate, debts[i].min_payment)]
    /\ income = p.income
    /\ expenses = p.expenses
    /\ emergency_fund = 0
    /\ investment = 0
    /\ e_target = p.emergency_months * p.expenses
    /\ payoffs = <<>>
    /\ total_interest = 0
    /\ total_taxes = 0
    /\ data = <<>>
    /\ month = 0
    /\ surplus = 0
    /\ active_debts = <<>>
    /\ total_debt = 0
    /\ phase = "DEBT"
    /\ rem_surplus = 0
    /\ idx = 0
    /\ pc = "loop"
    /\ month_interest = 0

Init == \E in \in Inputs : Start(in[1], in[2])

InitUnchecked == \E in \in UncheckedInputs : Start(in[1], in[2])

\* lines 156-185: escalation, classification, snapshot, dispatch
MonthStart ==
    /\ pc = "loop"
    /\ InRange(month, years)
    /\ LET inc == IF EscalationMonth(month) THEN Escalate(income, p.annual_raise) ELSE income
           exp == IF EscalationMonth(month) THEN Escalate(expenses, p.inflation) ELSE expenses
           sur == inc - exp
           act == ActiveDebts(current_debts)
           td == SumBalances(current_debts, act)
           ph == Classify(td, emergency_fund, e_target)
       IN /\ income' = inc
          /\ expenses' = exp
          /\ surplus' = sur
          /\ active_debts' = act
          /\ total_debt' = td
          /\ phase' = ph
          /\ data' = Append(data, Snapshot(month, inc, exp, td, ph))
          /\ IF ShouldAllocate(month, sur)
             THEN /\ rem_surplus' = sur
                  /\ month' = month
                  /\ pc' = CASE ph = "DEBT" -> "interest"
                             [] ph = "EMERGENCY" -> "emergency"
                             [] OTHER -> "investing"
             ELSE /\ rem_surplus' = rem_surplus
                  /\ month' = month + 1
                  /\ pc' = "loop"
    /\ month_interest' = 0
    /\ UNCHANGED <<p, debts, years, current_debts, emergency_fund, investment,
                   e_target, payoffs, total_interest, total_taxes, idx>>

\* lines 187-190
AccrueInterest ==
    /\ pc = "interest"
    /\ current_debts' = [i \in 1..Len(current_debts) |->
            IF \E k \in 1..Len(active_debts) : active_debts[k] = i
            THEN [current_debts[i] EXCEPT !.balance = @ + Interest(current_debts[i])]
            ELSE current_debts[i]]
    /\ total_interest' = total_interest + SumInterest(current_debts, active_debts)
    /\ month_interest' = SumInterest(current_debts, active_debts)
    /\ idx' = 1
    /\ pc' = "min_pay"
    /\ debts' = CallerSees(debts, current_debts')
    /\ UNCHANGED <<p, years, income, expenses, emergency_fund, investment,
                   e_target, payoffs, total_taxes, data, month, surplus,
                   active_debts, total_debt, phase, rem_surplus>>

\* lines 193-199, one iteration
MinPayment ==
    /\ pc = "min_pay"
    /\ idx <= Len(active_debts)
    /\ LET i == active_debts[idx]
           d == current_debts[i]
           payment == MinPaymentAmount(d, rem_surplus)
           nd == Pay(d, payment, month)
       IN /\ current_debts' = [current_debts EXCEPT ![i] = nd]
          /\ rem_surplus' = rem_surplus - payment
          /\ payoffs' = IF nd.payoff_month # d.payoff_month
                        THEN Append(payoffs, PayoffEvent(i, month))
                        ELSE payoffs
    /\ idx' = idx + 1
    /\ pc' = IF idx = Len(active_debts) THEN "extra_select" ELSE "min_pay"
    /\ debts' = CallerSees(debts, current_debts')
    /\ UNCHANGED <<month_interest, p, years, income, expenses, emergency_fund, investment,
                   e_target, total_interest, total_taxes, data, month, surplus,
                   active_debts, total_debt, phase>>

\* lines 202-208
ExtraSelect ==
    /\ pc = "extra_select"
    /\ IF rem_surplus > 0
       THEN LET act == ActiveDebts(current_debts)
            IN /\ active_debts' = StrategySort(p.strategy, current_debts, act)
               /\ pc' = IF act = <<>> THEN "overflow" ELSE "extra_pay"
       ELSE /\ active_debts' = active_debts
            /\ pc' = "overflow"
    /\ idx' = 1
    /\ UNCHANGED <<month_interest, p, debts, years, current_debts, income, expenses, emergency_fund,
                   investment, e_target, payoffs, total_interest, total_taxes, data,
                   month, surplus, total_debt, phase, rem_surplus>>

\* lines 210-217, one iteration
ExtraPayment ==
    /\ pc = "extra_pay"
    /\ idx <= Len(active_debts)
    /\ IF rem_surplus <= 0
       THEN /\ pc' = "overflow"
            /\ UNCHANGED <<current_debts, rem_surplus, payoffs, idx>>
       ELSE LET i == active_debts[idx]
                d == current_debts[i]
                payment == ExtraPaymentAmount(d, rem_surplus)
                nd == Pay(d, payment, month)
            IN /\ current_debts' = [current_debts EXCEPT ![i] = nd]
               /\ rem_surplus' = rem_surplus - payment
               /\ payoffs' = IF nd.payoff_month # d.payoff_month
                             THEN Append(payoffs, PayoffEvent(i, month))
                             ELSE payoffs
               /\ idx' = idx + 1
               /\ pc' = IF idx = Len(active_debts) THEN "overflow" ELSE "extra_pay"
    /\ debts' = CallerSees(debts, current_debts')
    /\ UNCHANGED <<month_interest, p, years, income, expenses, emergency_fund, investment,
                   e_target, total_interest, total_taxes, data, month, surplus,
                   active_debts, total_debt, phase>>

\* lines 219-222, end of a Debt month
Overflow ==
    /\ pc = "overflow"
    /\ emergency_fund' =
            IF rem_surplus > 0 /\ emergency_fund < e_target
            THEN emergency_fund + Contribution(rem_surplus, e_target, emergency_fund)
            ELSE emergency_fund
    /\ month' = month + 1
    /\ pc' = "loop"
    /\ UNCHANGED <<month_interest, p, debts, years, current_debts, income, expenses, investment,
                   e_target, payoffs, total_interest, total_taxes, data, surplus,
                   active_debts, total_debt, phase, rem_surplus, idx>>

\* lines 224-227
EmergencyMonth ==
    /\ pc = "emergency"
    /\ LET contribution == Contribution(rem_surplus, e_target, emergency_fund)
       IN /\ emergency_fund' = emergency_fund + contribution
          /\ rem_surplus' = rem_surplus - contribution
    /\ month' = month + 1
    /\ pc' = "loop"
    /\ UNCHANGED <<month_interest, p, debts, years, current_debts, income, expenses, investment,
                   e_target, payoffs, total_interest, total_taxes, data, surplus,
                   active_debts, total_debt, phase, idx>>

\* lines 230-234
InvestingMonth ==
    /\ pc = "investing"
    /\ LET growth == MulDiv(investment, WeightedYield(p), MonthsPerYear * BP)
           tax == MulDiv(growth, p.tax_rate, BP)
       IN /\ investment' = investment + (growth - tax) + rem_surplus
          /\ total_taxes' = total_taxes + tax
    /\ month' = month + 1
    /\ pc' = "loop"
    /\ UNCHANGED <<month_interest, p, debts, years, current_debts, income, expenses, emergency_fund,
                   e_target, payoffs, total_interest, data, surplus, active_debts,
                   total_debt, phase, rem_surplus, idx>>

\* line 236
Return ==
    /\ pc = "loop"
    /\ ~InRange(month, years)
    /\ pc' = "done"
    /\ UNCHANGED <<month_interest, p, debts, years, current_debts, income, expenses, emergency_fund,
                   investment, e_target, payoffs, total_interest, total_taxes, data,
                   month, surplus, active_debts, total_debt, phase, rem_surplus, idx>>

Next ==
    \/ MonthStart
    \/ AccrueInterest
    \/ MinPayment
    \/ ExtraSelect
    \/ ExtraPayment
    \/ Overflow
    \/ EmergencyMonth
    \/ InvestingMonth
    \/ Return

Spec == Init /\ [][Next]_vars

\* the run is sequential: a step that can be taken is taken
LiveSpec == Spec /\ WF_vars(Next)

\* the run on inputs that a validating constructor would refuse
SpecUnchecked == InitUnchecked /\ [][Next]_vars

----------------------------------------------------------------------------
(* Properties *)

\* total outstanding debt of a ledger: the sum of its positive balances
Debt(cd) == SumBalances(cd, ActiveDebts(cd))

Abs(x) == IF x >= 0 THEN x ELSE -x

InSeq(s, x) == \E k \in 1..Len(s) : s[k] = x

PosIn(s, x) == CHOOSE k \in 1..Len(s) : s[k] = x

\* C1: once a creditor's payoff_month is set, its balance is exactly 0 at
\* every later point of the run (after every pass, in every month).
C1_PaidOffStaysZero ==
    \A i \in 1..Len(current_debts) :
        current_debts[i].payoff_month # None => current_debts[i].balance = 0

\* an extra-payment pass of a later month, while another creditor still owes
C1_Witness ==
    /\ pc = "extra_pay"
    /\ \E i, j \in 1..Len(current_debts) :
        /\ current_debts[i].payoff_month # None
        /\ current_debts[i].payoff_month < month
        /\ current_debts[j].balance > 0

C3_TargetFollowsExpenses ==
    e_target = p.emergency_months * expenses

\* C4 as stated: in every snapshot the recorded NetWorth equals recorded
\* Investment + Emergency Fund - TotalDebt exactly.
C4_RecordedIdentityExact ==
    \A k \in 1..Len(data) :
        data[k].NetWorth = data[k].Investment + data[k].EmergencyFund - data[k].TotalDebt

\* C4 amended: in every snapshot the recorded NetWorth differs from recorded
\* Investment + Emergency Fund - TotalDebt by at most one cent.
C4_RecordedIdentityWithinCent ==
    \A k \in 1..Len(data) :
        Abs(data[k].NetWorth
            - (data[k].Investment + data[k].EmergencyFund - data[k].TotalDebt)) <= 10

\* a snapshot whose recorded fields are one cent apart, and one with debt
C4_Witness ==
    /\ \E k \in 1..Len(data) :
        Abs(data[k].NetWorth
            - (data[k].Investment + data[k].EmergencyFund - data[k].TotalDebt)) = 10
    /\ \E k \in 1..Len(data) : data[k].TotalDebt > 0

\* C5: with Avalanche, a creditor receives an extra payment only when every
\* creditor with a strictly higher interest_rate has balance 0.
C5_AvalancheOrder ==
    [][(pc = "extra_pay" /\ p.strategy = "Avalanche" /\ rem_surplus' < rem_surplus) =>
        \A j \in 1..Len(current_debts) :
            current_debts[j].interest_rate
                    > current_debts[active_debts[idx]].interest_rate
                => current_debts[j].balance = 0]_vars

\* both of two creditors were paid in one pass, the later of the ledger first
C5_Witness ==
    /\ p.strategy = "Avalanche"
    /\ pc = "overflow"
    /\ Len(active_debts) = 2
    /\ idx = 3
    /\ active_debts[1] > active_debts[2]
    /\ current_debts[active_debts[1]].interest_rate
            > current_debts[active_debts[2]].interest_rate

\* C6: with any strategy other than Avalanche, a creditor receives an extra
\* payment only when every other creditor that still owes comes later in the
\* order (balance ascending, equal balances in ledger order); a creditor
\* earlier in that order has been paid down to 0.
C6_SnowballOrder ==
    [][(pc = "extra_pay" /\ p.strategy # "Avalanche" /\ rem_surplus' < rem_surplus) =>
        LET i == active_debts[idx]
        IN \A j \in 1..Len(current_debts) :
            (j # i /\ current_debts[j].balance > 0) =>
                \/ current_debts[j].balance > current_debts[i].balance
                \/ current_debts[j].balance = current_debts[i].balance /\ j > i]_vars

\* an unrecognized strategy paid two creditors in one pass, the later of the
\* ledger first
C6_Witness ==
    /\ p.strategy = "Other"
    /\ pc = "overflow"
    /\ Len(active_debts) = 2
    /\ idx = 3
    /\ active_debts[1] > active_debts[2]

\* C7: the run terminates, and returns years*12 + 1 snapshots whose Month
\* fields are 0, 1, ..., years*12 in that order.
C7_TerminatesWithAllMonths ==
    <>(/\ pc = "done"
       /\ Len(data) = years * 12 + 1
       /\ \A k \in 1..Len(data) : data[k].Month = k - 1)

\* a finished run of a year, one of whose months had no surplus
C7_Witness ==
    /\ pc = "done"
    /\ years >= 1
    /\ surplus <= 0
    /\ Len(data) = 13
    /\ data[13].Month = 12

\* C8: a month m >= 1 with surplus <= 0 appends its snapshot and changes
\* nothing else: balances, payoff months, emergency fund, investment,
\* cumulative interest and taxes and the payoff list stay as they were, and
\* the loop goes on to the next month.
C8_NoAllocationWithoutSurplus ==
    [][(data' # data /\ month >= 1 /\ surplus' <= 0) =>
        /\ UNCHANGED <<current_debts, emergency_fund, investment, total_interest,
                       total_taxes, payoffs>>
        /\ data' = Append(data, data'[Len(data')])
        /\ data'[Len(data')].Month = month
        /\ month' = month + 1
        /\ pc' = "loop"]_vars

\* the surplus turned negative after months that did allocate
C8_Witness ==
    /\ pc = "loop"
    /\ month > 1
    /\ surplus <= 0
    /\ total_interest > 0
    /\ Len(data) = month
    /\ \E i \in 1..Len(current_debts) : current_debts[i].balance > 0

\* C9: the snapshot of month m is taken from the state left by month m-1,
\* before month m's allocation changes anything; the snapshots of month 0 and
\* month 1 report the same total_debt, emergency_fund and investment.
C9_ObserveThenMutate ==
    [][data' # data =>
        LET s == data'[Len(data')]
        IN /\ pc = "loop"
           /\ s.Month = month
           /\ s.Phase = Classify(Debt(current_debts), emergency_fund, e_target)
           /\ s.TotalDebt = Round2(Debt(current_debts))
           /\ s.EmergencyFund = Round2(emergency_fund)
           /\ s.Investment = Round2(investment)
           /\ s.InterestPaid = Round2(total_interest)
           /\ s.TaxesPaid = Round2(total_taxes)
           /\ UNCHANGED <<current_debts, emergency_fund, investment,
                          total_interest, total_taxes, payoffs>>
           /\ month = 1 =>
                /\ s.TotalDebt = data[1].TotalDebt
                /\ s.EmergencyFund = data[1].EmergencyFund
                /\ s.Investment = data[1].Investment]_vars

\* month 1's payments show in the snapshot of month 2, not of month 1
C9_Witness ==
    /\ Len(data) >= 3
    /\ data[1].TotalDebt > 0
    /\ data[2].TotalDebt = data[1].TotalDebt
    /\ data[3].TotalDebt < data[2].TotalDebt
    /\ data[3].InterestPaid > data[2].InterestPaid

\* C10: payoff events are appended in non-decreasing month order; within a
\* month the events of the minimum-payment pass come first, in ledger order,
\* then those of the extra-payment pass in the order of the strategy sort
\* (Avalanche: interest_rate descending; otherwise balance ascending; ties in
\* ledger order).
C10_PayoffOrder ==
    [][payoffs' # payoffs =>
        LET e == payoffs'[Len(payoffs')]
        IN /\ payoffs' = Append(payoffs, e)
           /\ e.month = month
           /\ e.name = active_debts[idx]
           /\ \A k \in 1..Len(payoffs) :
                /\ payoffs[k].month <= e.month
                /\ payoffs[k].month = e.month =>
                     IF pc = "min_pay"
                     THEN /\ InSeq(active_debts, payoffs[k].name)
                          /\ PosIn(active_debts, payoffs[k].name) < idx
                     ELSE \/ ~InSeq(active_debts, payoffs[k].name)
                          \/ PosIn(active_debts, payoffs[k].name) < idx
           /\ \A a, b \in idx..Len(active_debts) :
                a < b =>
                    LET da == current_debts[active_debts[a]]
                        db == current_debts[active_debts[b]]
                    IN IF pc = "min_pay"
                       THEN active_debts[a] < active_debts[b]
                       ELSE IF p.strategy = "Avalanche"
                       THEN \/ da.interest_rate > db.interest_rate
                            \/ /\ da.interest_rate = db.interest_rate
                               /\ active_debts[a] < active_debts[b]
                       ELSE \/ da.balance < db.balance
                            \/ /\ da.balance = db.balance
                               /\ active_debts[a] < active_debts[b]]_vars

\* one month cleared two creditors in its extra pass, the later of the
\* ledger first
C10_Witness ==
    /\ Len(payoffs) >= 2
    /\ payoffs[1].month = payoffs[2].month
    /\ payoffs[1].name > payoffs[2].name
    /\ pc = "overflow"
    /\ idx = 3
    /\ Len(active_debts) = 2
    /\ current_debts[active_debts[1]].payoff_month = month
    /\ current_debts[active_debts[2]].payoff_month = month

\* C11: no step of the run changes the caller's creditor list (its records'
\* balance, interest_rate, min_payment and payoff_month, its order and
\* length) or the profile, so a second run starts from the same input.
C11_InputNotMutated ==
    [][debts' = debts /\ p' = p]_vars

\* a finished run whose working ledger has moved away from the caller's list
C11_Witness ==
    /\ pc = "done"
    /\ \E i \in 1..Len(debts) :
        /\ debts[i].balance > 0
        /\ debts[i].payoff_month = None
        /\ current_debts[i].balance = 0
        /\ current_debts[i].payoff_month # None

InvalidInput ==
    \/ p.income < 0
    \/ p.expenses < 0
    \/ \E i \in 1..Len(debts) : debts[i].balance < 0 \/ debts[i].interest_rate < 0

\* C12 as stated: an input with a negative income, expense, balance or rate
\* is rejected before any month is simulated: the run records no snapshot
\* and no payoff event and returns nothing.
C12_NegativeInputRejected ==
    InvalidInput => (data = <<>> /\ payoffs = <<>> /\ pc # "done")

\* C13: with emergency_months = 0 no snapshot has phase Emergency: a month
\* that starts with no debt is classified Investing, and once a snapshot is
\* Investing every later one is.
C13_NoEmergencyPhase ==
    p.emergency_months = 0 =>
        /\ \A k \in 1..Len(data) : data[k].Phase # "EMERGENCY"
        /\ \A k, l \in 1..Len(data) :
            (k < l /\ data[k].Phase = "INVESTING") => data[l].Phase = "INVESTING"
        /\ (data # <<>> /\ total_debt = 0) => phase = "INVESTING"

\* the snapshot after the last Debt snapshot is Investing
C13_Witness ==
    /\ p.emergency_months = 0
    /\ \E k \in 1..(Len(data) - 1) :
        /\ data[k].Phase = "DEBT"
        /\ data[k + 1].Phase = "INVESTING"
        /\ data[k + 1].EmergencyFund = 0

NothingOwed == \A i \in 1..Len(debts) : debts[i].balance = 0

\* C14 as stated: with no creditor owing anything no snapshot has phase Debt,
\* and the snapshot of month 1 is Emergency if emergency_months > 0 and
\* Investing if emergency_months = 0, whatever the expenses.
C14_FirstPhaseByEmergencyMonths ==
    NothingOwed =>
        /\ \A k \in 1..Len(data) : data[k].Phase # "DEBT"
        /\ Len(data) >= 2 =>
            data[2].Phase = IF p.emergency_months > 0 THEN "EMERGENCY" ELSE "INVESTING"

\* C14 amended: with no creditor owing anything no snapshot has phase Debt,
\* and the snapshot of month 1 is Emergency if the emergency target
\* emergency_months * expenses is > 0 and Investing if it is 0.
C14_FirstPhaseByTarget ==
    NothingOwed =>
        /\ \A k \in 1..Len(data) : data[k].Phase # "DEBT"
        /\ Len(data) >= 2 =>
            data[2].Phase = IF p.emergency_months * p.expenses > 0
                            THEN "EMERGENCY" ELSE "INVESTING"

\* creditors that owe nothing, emergency_months > 0, expenses 0: Investing
C14_Witness ==
    /\ NothingOwed
    /\ debts # <<>>
    /\ p.emergency_months > 0
    /\ p.expenses = 0
    /\ Len(data) >= 2
    /\ data[2].Phase = "INVESTING"

WorkedScenario == p = WorkedProfile /\ debts = WorkedLedger

\* C15: in the worked scenario month 1 accrues interest 166.67 (balance
\* 10166.67), pays the minimum 300 (balance 9866.67, 1700 left), pays the
\* 1700 extra (balance 8166.67); the snapshot of month 1 reports TotalDebt
\* 10000.00, that of month 2 TotalDebt 8166.67 and Interest Paid 166.67.
C15_WorkedScenario ==
    WorkedScenario =>
        /\ (month = 1 /\ pc = "min_pay") =>
            /\ Round2(month_interest) = 166670
            /\ Round2(current_debts[1].balance) = 10166670
        /\ (month = 1 /\ pc = "extra_select") =>
            /\ Round2(current_debts[1].balance) = 9866670
            /\ rem_surplus = 1700000
        /\ (month = 1 /\ pc = "overflow") =>
            /\ Round2(current_debts[1].balance) = 8166670
            /\ rem_surplus = 0
        /\ Len(data) >= 2 => data[2].TotalDebt = 10000000
        /\ Len(data) >= 3 =>
            /\ data[3].TotalDebt = 8166670
            /\ data[3].InterestPaid = 166670

C15_Witness ==
    /\ WorkedScenario
    /\ years = 1
    /\ pc = "done"
    /\ data[3].Month = 2

\* C16: a month classified Emergency with surplus > 0 raises the emergency
\* fund by exactly min(surplus, e_target - emergency_fund) and leaves the
\* investment, the cumulative taxes and every creditor untouched, also when
\* the fund reaches its target with surplus to spare.
C16_EmergencyMonthOnlyFillsFund ==
    [][/\ (data' # data /\ phase' = "EMERGENCY") =>
            UNCHANGED <<emergency_fund, investment, total_taxes, current_debts>>
       /\ pc = "emergency" =>
            /\ phase = "EMERGENCY" /\ surplus > 0
            /\ emergency_fund' = emergency_fund + Min(surplus, e_target - emergency_fund)
            /\ UNCHANGED <<investment, total_taxes, total_interest, current_debts, payoffs>>
            /\ month' = month + 1
            /\ pc' = "loop"]_vars

\* the fund reached its target in an Emergency month and surplus was left
C16_Witness ==
    /\ pc = "loop"
    /\ month >= 2
    /\ phase = "EMERGENCY"
    /\ surplus > 0
    /\ emergency_fund = e_target
    /\ rem_surplus > 0
    /\ investment = 0

\* C17: in a Debt month the emergency fund changes only in the overflow step,
\* only with surplus left and every creditor balance at 0, and then by
\* exactly min(rem_surplus, e_target - emergency_fund); while a creditor
\* still owes at the end of the month the fund is unchanged.
C17_OverflowOnlyWhenDebtCleared ==
    [][(phase = "DEBT" /\ pc \in {"interest", "min_pay", "extra_select",
                                  "extra_pay", "overflow"}) =>
        /\ emergency_fund' # emergency_fund =>
            /\ pc = "overflow"
            /\ rem_surplus > 0
            /\ \A i \in 1..Len(current_debts) : current_debts[i].balance = 0
        /\ pc = "overflow" =>
            emergency_fund' =
                IF rem_surplus > 0 /\ emergency_fund < e_target
                THEN emergency_fund + Min(rem_surplus, e_target - emergency_fund)
                ELSE emergency_fund
        /\ (pc = "overflow" /\ \E i \in 1..Len(current_debts) :
                                    current_debts[i].balance > 0) =>
            emergency_fund' = emergency_fund]_vars

\* a Debt month cleared the last creditor and put the rest into the fund
C17_Witness ==
    /\ pc = "loop"
    /\ month >= 2
    /\ phase = "DEBT"
    /\ emergency_fund > 0
    /\ emergency_fund < e_target
    /\ \E i \in 1..Len(current_debts) : current_debts[i].payoff_month = month - 1

PhaseRank(ph) ==
    CASE ph = "DEBT" -> 1
      [] ph = "EMERGENCY" -> 2
      [] ph = "INVESTING" -> 3

\* C18: the phases of the snapshots never move backward in the order
\* Debt, Emergency, Investing.
C18_PhasesNeverGoBack ==
    \A k, l \in 1..Len(data) :
        k < l => PhaseRank(data[k].Phase) <= PhaseRank(data[l].Phase)

\* all three phases in one run that crosses an escalation with inflation
C18_Witness ==
    /\ Len(data) = 13
    /\ p.inflation > 0
    /\ data[13].Expenses > data[12].Expenses
    /\ data[1].Phase = "DEBT"
    /\ \E k \in 1..13 : data[k].Phase = "EMERGENCY"
    /\ data[13].Phase = "INVESTING"

\* C19: the remaining surplus and every balance stay >= 0; a payment is
\* between 0 and the remaining surplus and the balance; a minimum payment
\* falls short of min(min_payment, balance) only by exhausting the surplus,
\* so creditors later in the ledger go without; payments plus the emergency
\* contribution of a month are at most income - expenses.
C19_NeverOverspends ==
    [][/\ rem_surplus' >= 0
       /\ \A i \in 1..Len(current_debts') : current_debts'[i].balance >= 0
       /\ pc \in {"min_pay", "extra_pay"} =>
            LET d == current_debts[active_debts[idx]]
                paid == rem_surplus - rem_surplus'
            IN /\ 0 <= paid
               /\ paid <= rem_surplus
               /\ paid <= d.balance
               /\ rem_surplus' <= surplus
               /\ (pc = "min_pay" /\ paid < Min(d.min_payment, d.balance)) =>
                    rem_surplus' = 0
       /\ pc = "overflow" =>
            /\ emergency_fund' >= emergency_fund
            /\ (surplus - rem_surplus) + (emergency_fund' - emergency_fund) <= surplus
       /\ pc = "emergency" =>
            /\ emergency_fund' >= emergency_fund
            /\ emergency_fund' - emergency_fund <= surplus]_vars

\* the surplus ran out on the first creditor; the second still owes
C19_Witness ==
    /\ pc = "min_pay"
    /\ idx = 2
    /\ surplus > 0
    /\ rem_surplus = 0
    /\ current_debts[active_debts[1]].balance > 0
    /\ current_debts[active_debts[2]].balance > 0

\* C20: payoff events name distinct creditors; an event's month is its
\* creditor's payoff_month and a month whose snapshot has phase Debt; every
\* creditor with a payoff_month has its event; a creditor that owed nothing
\* at the start has none; so there are at most as many events as creditors
\* that owed something at the start.
C20_OnePayoffEventPerCreditor ==
    /\ \A k, l \in 1..Len(payoffs) : k # l => payoffs[k].name # payoffs[l].name
    /\ \A k \in 1..Len(payoffs) :
        LET e == payoffs[k]
        IN /\ current_debts[e.name].payoff_month = e.month
           /\ e.month + 1 <= Len(data)
           /\ data[e.month + 1].Phase = "DEBT"
           /\ debts[e.name].balance > 0
    /\ \A i \in 1..Len(current_debts) :
        current_debts[i].payoff_month # None =>
            \E k \in 1..Len(payoffs) : payoffs[k].name = i
    /\ Len(payoffs) <= Cardinality({ i \in 1..Len(debts) : debts[i].balance > 0 })

\* a finished run: one creditor owed nothing, the other was paid off
C20_Witness ==
    /\ pc = "done"
    /\ Len(debts) = 2
    /\ debts[1].balance = 0
    /\ debts[2].balance > 0
    /\ Len(payoffs) = 1
    /\ payoffs[1].name = 2

====
